---- MODULE Spec2Model ----
(***************************************************************************)
(* State-machine model of the task manager: the durable store behind       *)
(* DbOperations (src/src/db/task_manager/operations.rs), the application   *)
(* state App (src/src/task_manager/app.rs) and the key-event loop run      *)
(* (src/src/task_manager/ui.rs).                                           *)
(*                                                                         *)
(* Conventions.  Strings are sequences of one-character strings, so that   *)
(* typing, backspace and emptiness tests act on them as the code does.     *)
(* Indices (selected, selected_topic) are zero-based as in the code; a     *)
(* Vec v is a sequence and v[i] is written At(v, i).  Timestamps are read  *)
(* from the wall clock and are not modelled; a log entry keeps its level,  *)
(* not the text formatted into it.  A table is the set of its rows; every  *)
(* SELECT orders it by id as the query does.                               *)
(***************************************************************************)
EXTENDS Integers, Sequences, FiniteSets, TLC

VARIABLES
    app,    \* struct App: the in-memory application state
    db,     \* the store: tables topic and task and their AUTOINCREMENT counters
    pc      \* the process: "off" (not started), "running", "exited", "panicked"

vars == <<app, db, pc>>

--------------------------------------------------------------------------
(* Bounds of the model *)

\* Topic ids the store hands out (3 bootstrap topics and further ones).
MaxTopicId == 5
\* Task ids the store hands out.
MaxTaskId == 3
\* Length of the in-memory log of one session (startup writes 3 entries).
MaxLogs == 5
\* How far PageUp scrolls the log.
MaxLogOffset == 2

\* The texts a user types (a buffer is always a prefix of one of them).  The
\* character typed is 'd', which Normal mode binds to delete_task.
Words == {<<"d">>}

--------------------------------------------------------------------------
(* Names and small helpers *)

Favourites == <<"F", "a", "v", "o", "u", "r", "i", "t", "e", "s">>
Default == <<"D", "e", "f", "a", "u", "l", "t">>
Completed == <<"C", "o", "m", "p", "l", "e", "t", "e", "d">>

\* Option<T>: None is the empty sequence, Some(v) the one-element sequence.
None == <<>>
Some(v) == <<v>>

At(v, i) == v[i + 1]

\* Vec::get(i)
Get(v, i) == IF i < Len(v) THEN Some(v[i + 1]) ELSE None

\* usize::saturating_sub
saturating_sub(a, b) == IF a >= b THEN a - b ELSE 0

\* String::pop
Pop(s) == IF s = <<>> THEN s ELSE SubSeq(s, 1, Len(s) - 1)

IsPrefix(p, w) == Len(p) <= Len(w) /\ SubSeq(w, 1, Len(p)) = p

Range(s) == {s[i] : i \in 1..Len(s)}

\* Mutant: ORDER BY id DESC
RECURSIVE OrderByIdDesc(_)
OrderByIdDesc(rows) ==
    IF rows = {} THEN <<>>
    ELSE LET m == CHOOSE r \in rows : \A q \in rows : r.id >= q.id
         IN  <<m>> \o OrderByIdDesc(rows \ {m})

\* ORDER BY id
RECURSIVE OrderById(_)
OrderById(rows) ==
    IF rows = {} THEN <<>>
    ELSE LET m == CHOOSE r \in rows : \A q \in rows : r.id <= q.id
         IN  <<m>> \o OrderById(rows \ {m})

--------------------------------------------------------------------------
(* The store and DbOperations *)

EmptyDb == [topic |-> {}, task |-> {}, topic_seq |-> 0, task_seq |-> 0]

\* id INTEGER PRIMARY KEY AUTOINCREMENT: one more than the largest id ever used.
NextTopicId(d) == d.topic_seq + 1
NextTaskId(d) == d.task_seq + 1

\* Table topic as persisted: name TEXT NOT NULL and no UNIQUE constraint, so
\* the store accepts every row an INSERT offers.
TopicRowAccepted(d, row) == TRUE

\* The connection is opened without PRAGMA foreign_keys: SQLite does not
\* enforce REFERENCES topic(id).
ForeignKeysEnforced == FALSE

special_topics == {Favourites, Default}

\* Mutant: only Favourites is protected.
is_special_topic_favourites_only(name) == name = Favourites

is_special_topic(name) == name \in special_topics

QueryError(d) == [ok |-> FALSE, db |-> d, val |-> None]

Db_load_topics(d) == [ok |-> TRUE, db |-> d, val |-> OrderById(d.topic)]

Db_add_topic(d, name, description) ==
    LET row == [id |-> NextTopicId(d), name |-> name, description |-> description]
        d1 == [d EXCEPT !.topic = @ \cup {row}, !.topic_seq = row.id]
    IN  IF ~TopicRowAccepted(d, row) THEN QueryError(d)
        ELSE [ok |-> TRUE, db |-> d1,
              val |-> OrderById(d1.topic)[Len(OrderById(d1.topic))]]

Db_delete_topic(d, topic_id) ==
    LET found == {t \in d.topic : t.id = topic_id} IN
    IF found = {} THEN QueryError(d)
    ELSE LET topic == CHOOSE t \in found : TRUE IN
         IF is_special_topic(topic.name)
         THEN [ok |-> TRUE, db |-> d, val |-> 0]
         ELSE IF ForeignKeysEnforced /\ \E t \in d.task : t.topic_id = topic_id
         THEN QueryError(d)
         ELSE [ok |-> TRUE,
               db |-> [d EXCEPT !.topic = {t \in @ : t.id # topic_id}],
               val |-> 1]

\* Mutant: no Favourites view, the topic is filtered by membership.
Db_load_tasks_no_favourites(d, current_topic) ==
    [ok |-> TRUE, db |-> d,
     val |-> IF current_topic.name = Default
                THEN OrderById(d.task)
             ELSE OrderById({t \in d.task : t.topic_id = current_topic.id})]

\* Mutant: no Default view, the topic is filtered by membership.
Db_load_tasks_no_default(d, current_topic) ==
    [ok |-> TRUE, db |-> d,
     val |-> IF current_topic.name = Favourites
                THEN OrderById({t \in d.task : t.favourite})
             ELSE OrderById({t \in d.task : t.topic_id = current_topic.id})]

\* Mutant: the membership filter compares the task's own id.
Db_load_tasks_by_task_id(d, current_topic) ==
    [ok |-> TRUE, db |-> d,
     val |-> IF current_topic.name = Favourites
                THEN OrderById({t \in d.task : t.favourite})
             ELSE IF current_topic.name = Default
                THEN OrderById(d.task)
             ELSE OrderById({t \in d.task : t.id = current_topic.id})]

Db_load_tasks(d, current_topic) ==
    [ok |-> TRUE, db |-> d,
     val |-> IF current_topic.name = Favourites
                THEN OrderById({t \in d.task : t.favourite})
             ELSE IF current_topic.name = Default
                THEN OrderById(d.task)
             ELSE OrderById({t \in d.task : t.topic_id = current_topic.id})]

\* Mutant: the row is inserted with favourite = true.
Db_add_task_favourite(d, topic_id, name, description) ==
    LET row == [id |-> NextTaskId(d), topic_id |-> topic_id, name |-> name,
                description |-> description, completed |-> FALSE,
                favourite |-> TRUE]
        d1 == [d EXCEPT !.task = @ \cup {row}, !.task_seq = row.id]
    IN  [ok |-> TRUE, db |-> d1,
         val |-> OrderById(d1.task)[Len(OrderById(d1.task))]]

Db_add_task(d, topic_id, name, description) ==
    LET row == [id |-> NextTaskId(d), topic_id |-> topic_id, name |-> name,
                description |-> description, completed |-> FALSE,
                favourite |-> FALSE]
        d1 == [d EXCEPT !.task = @ \cup {row}, !.task_seq = row.id]
    IN  IF ForeignKeysEnforced /\ ~\E t \in d.topic : t.id = topic_id
        THEN QueryError(d)
        ELSE [ok |-> TRUE, db |-> d1,
              val |-> OrderById(d1.task)[Len(OrderById(d1.task))]]

\* AsChangeset: only the supplied fields are written.
ApplyUpdate(t, update) ==
    [t EXCEPT !.name = IF update.name = None THEN @ ELSE update.name[1],
              !.description = IF update.description = None THEN @
                              ELSE update.description[1],
              !.completed = IF update.completed = None THEN @
                            ELSE update.completed[1],
              !.favourite = IF update.favourite = None THEN @
                            ELSE update.favourite[1]]

Db_update_task(d, task_id, update) ==
    LET d1 == [d EXCEPT !.task =
                  {IF t.id = task_id THEN ApplyUpdate(t, update) ELSE t : t \in @}]
        found == {t \in d1.task : t.id = task_id}
    IN  IF found = {} THEN QueryError(d1)
        ELSE [ok |-> TRUE, db |-> d1, val |-> CHOOSE t \in found : TRUE]

\* Mutant: the update writes completed = true instead of the negation.
Db_toggle_task_completion_set(d, task_id) ==
    LET found == {t \in d.task : t.id = task_id} IN
    IF found = {} THEN QueryError(d)
    ELSE Db_update_task(d, task_id,
             [name |-> None, description |-> None,
              completed |-> Some(TRUE), favourite |-> None])

Db_toggle_task_completion(d, task_id) ==
    LET found == {t \in d.task : t.id = task_id} IN
    IF found = {} THEN QueryError(d)
    ELSE LET current_task == CHOOSE t \in found : TRUE IN
         Db_update_task(d, task_id,
             [name |-> None, description |-> None,
              completed |-> Some(~current_task.completed), favourite |-> None])

\* Mutant: marking a task favourite also resets its completed flag.
Db_toggle_task_favourite_uncompletes(d, task_id) ==
    LET found == {t \in d.task : t.id = task_id} IN
    IF found = {} THEN QueryError(d)
    ELSE LET current_task == CHOOSE t \in found : TRUE IN
         Db_update_task(d, task_id,
             [name |-> None, description |-> None, completed |-> Some(FALSE),
              favourite |-> Some(~current_task.favourite)])

Db_toggle_task_favourite(d, task_id) ==
    LET found == {t \in d.task : t.id = task_id} IN
    IF found = {} THEN QueryError(d)
    ELSE LET current_task == CHOOSE t \in found : TRUE IN
         Db_update_task(d, task_id,
             [name |-> None, description |-> None, completed |-> None,
              favourite |-> Some(~current_task.favourite)])

Db_delete_task(d, task_id) ==
    [ok |-> TRUE,
     db |-> [d EXCEPT !.task = {t \in @ : t.id # task_id}],
     val |-> Cardinality({t \in d.task : t.id = task_id})]

\* A repository call of kind `kind` under the injected fault f: the query
\* fails (QueryError, store untouched) when f names it.
Query(f, kind, d, result) == IF f = kind THEN QueryError(d) ELSE result

--------------------------------------------------------------------------
(* struct App and its operations.  Every operation maps the application    *)
(* state a and the store d to [app, db, res]: res is "Ok", "Err" (the      *)
(* Result returned to the caller) or "Panic" (an index out of bounds).     *)

Modes == {"Normal", "AddingTask", "AddingTaskName", "AddingTaskDescription",
          "EditingTask", "DeleteTask", "AddingTopic", "Help"}

\* The fields App::new starts from.
NewApp ==
    [topics |-> <<>>, tasks |-> <<>>, selected |-> 0, selected_topic |-> 0,
     input_mode |-> "Normal", input |-> <<>>, task_name_input |-> <<>>,
     task_description_input |-> <<>>, logs |-> <<>>, log_offset |-> 0,
     show_help |-> FALSE]

Ret(a, d, res) == [app |-> a, db |-> d, res |-> res]

add_log(a, level, msg) ==
    [a EXCEPT !.logs = Append(@, [level |-> level]),
              !.log_offset = 0]

\* Mutant: the reload does not clamp selected.
App_load_tasks_no_clamp(a, d, f) ==
    LET cleared == [a EXCEPT !.tasks = <<>>] IN
    IF a.topics = <<>> THEN Ret(cleared, d, "Ok")
    ELSE IF a.selected_topic >= Len(a.topics) THEN Ret(cleared, d, "Panic")
    ELSE LET r == Query(f, "load_tasks", d,
                        Db_load_tasks(d, At(a.topics, a.selected_topic)))
         IN  IF ~r.ok THEN Ret(cleared, d, "Err")
             ELSE Ret([cleared EXCEPT !.tasks = r.val], d, "Ok")

App_load_tasks(a, d, f) ==
    LET cleared == [a EXCEPT !.tasks = <<>>] IN
    IF a.topics = <<>> THEN Ret(cleared, d, "Ok")
    ELSE IF a.selected_topic >= Len(a.topics) THEN Ret(cleared, d, "Panic")
    ELSE LET r == Query(f, "load_tasks", d,
                        Db_load_tasks(d, At(a.topics, a.selected_topic)))
         IN  IF ~r.ok THEN Ret(cleared, d, "Err")
             ELSE Ret([cleared EXCEPT
                         !.tasks = r.val,
                         !.selected = IF a.selected >= Len(r.val) /\ r.val # <<>>
                                      THEN Len(r.val) - 1 ELSE @],
                      d, "Ok")

App_load_topics(a, d, f) ==
    LET r == Query(f, "load_topics", d, Db_load_topics(d)) IN
    IF ~r.ok THEN Ret(a, d, "Err")
    ELSE Ret([a EXCEPT !.topics = r.val], d, "Ok")

\* Mutant: no test for the Favourites view.
App_add_task_with_details_unguarded(a, d, name, desc, f) ==
    IF a.selected_topic >= Len(a.topics) THEN Ret(a, d, "Panic")
    ELSE LET current_topic == At(a.topics, a.selected_topic)
             r == Query(f, "write", d,
                        Db_add_task(d, current_topic.id, name, desc))
         IN  IF ~r.ok THEN Ret(a, r.db, "Err")
             ELSE App_load_tasks(add_log(a, "INFO", "Added task"), r.db, f)

App_add_task_with_details(a, d, name, desc, f) ==
    IF a.selected_topic >= Len(a.topics) THEN Ret(a, d, "Panic")
    ELSE LET current_topic == At(a.topics, a.selected_topic) IN
         IF current_topic.name = Favourites THEN Ret(a, d, "Ok")
         ELSE LET r == Query(f, "write", d,
                             Db_add_task(d, current_topic.id, name, desc))
              IN  IF ~r.ok THEN Ret(a, r.db, "Err")
                  ELSE App_load_tasks(add_log(a, "INFO", "Added task"), r.db, f)

TaskLabel == <<"T", "a", "s", "k", " ">>

\* A character whose UTF-8 encoding takes two bytes; every other character
\* of the model takes one.
TwoByteChar == "E9"

\* str::len: the length in bytes.
RECURSIVE Utf8Len(_)
Utf8Len(s) ==
    IF s = <<>> THEN 0
    ELSE (IF Head(s) = TwoByteChar THEN 2 ELSE 1) + Utf8Len(Tail(s))

\* chars().take(n)
Take(s, n) == SubSeq(s, 1, IF Len(s) < n THEN Len(s) ELSE n)

\* Mutant: add_task without the test for Favourites.
App_add_task_unguarded(a, d, desc, f) ==
    IF a.selected_topic >= Len(a.topics) THEN Ret(a, d, "Panic")
    ELSE LET current_topic == At(a.topics, a.selected_topic)
             name == IF Utf8Len(desc) > 20 THEN TaskLabel \o Take(desc, 20)
                     ELSE TaskLabel \o desc
             r == Query(f, "write", d,
                        Db_add_task(d, current_topic.id, name, desc))
         IN  IF ~r.ok THEN Ret(a, r.db, "Err")
             ELSE App_load_tasks(add_log(a, "INFO", "Added task"), r.db, f)

\* Mutant: the name carries the whole description.
App_add_task_untruncated(a, d, desc, f) ==
    IF a.selected_topic >= Len(a.topics) THEN Ret(a, d, "Panic")
    ELSE LET current_topic == At(a.topics, a.selected_topic)
             name == TaskLabel \o desc
         IN  IF current_topic.name = Favourites THEN Ret(a, d, "Ok")
             ELSE LET r == Query(f, "write", d,
                                 Db_add_task(d, current_topic.id, name, desc))
                  IN  IF ~r.ok THEN Ret(a, r.db, "Err")
                      ELSE App_load_tasks(add_log(a, "INFO", "Added task"), r.db, f)

App_add_task(a, d, desc, f) ==
    IF a.selected_topic >= Len(a.topics) THEN Ret(a, d, "Panic")
    ELSE LET current_topic == At(a.topics, a.selected_topic)
             name == IF Utf8Len(desc) > 20 THEN TaskLabel \o Take(desc, 20)
                     ELSE TaskLabel \o desc
         IN  IF current_topic.name = Favourites THEN Ret(a, d, "Ok")
             ELSE LET r == Query(f, "write", d,
                                 Db_add_task(d, current_topic.id, name, desc))
                  IN  IF ~r.ok THEN Ret(a, r.db, "Err")
                      ELSE App_load_tasks(add_log(a, "INFO", "Added task"), r.db, f)

App_add_topic(a, d, name, f) ==
    LET r == Query(f, "write", d, Db_add_topic(d, name, <<>>)) IN
    IF ~r.ok THEN Ret(a, r.db, "Err")
    ELSE App_load_topics(a, r.db, f)

\* Mutant: the toggle is written but the cache is not reloaded.
App_toggle_task_no_reload(a, d, f) ==
    LET o == Get(a.tasks, a.selected) IN
    IF o = None THEN Ret(a, d, "Ok")
    ELSE LET r == Query(f, "write", d, Db_toggle_task_completion(d, o[1].id)) IN
         IF ~r.ok THEN Ret(a, r.db, "Err")
         ELSE Ret(add_log(a, "INFO", "Toggled task id"), r.db, "Ok")

App_toggle_task(a, d, f) ==
    LET o == Get(a.tasks, a.selected) IN
    IF o = None THEN Ret(a, d, "Ok")
    ELSE LET r == Query(f, "write", d, Db_toggle_task_completion(d, o[1].id)) IN
         IF ~r.ok THEN Ret(a, r.db, "Err")
         ELSE App_load_tasks(add_log(a, "INFO", "Toggled task id"), r.db, f)

App_toggle_favourite(a, d, f) ==
    LET o == Get(a.tasks, a.selected) IN
    IF o = None THEN Ret(a, d, "Ok")
    ELSE LET r == Query(f, "write", d, Db_toggle_task_favourite(d, o[1].id)) IN
         IF ~r.ok THEN Ret(a, r.db, "Err")
         ELSE App_load_tasks(add_log(a, "INFO", "Toggled favourite for task id"),
                             r.db, f)

\* Mutant: the selection goes back to the top of the list after a deletion.
App_delete_task_reset(a, d, f) ==
    LET o == Get(a.tasks, a.selected) IN
    IF o = None THEN Ret(a, d, "Ok")
    ELSE LET r == Query(f, "write", d, Db_delete_task(d, o[1].id)) IN
         IF ~r.ok THEN Ret(a, r.db, "Err")
         ELSE LET l == App_load_tasks(add_log(a, "INFO", "Deleted task id"),
                                      r.db, f)
              IN  IF l.res # "Ok" THEN l
                  ELSE Ret([l.app EXCEPT !.selected = 0], l.db, "Ok")

App_delete_task(a, d, f) ==
    LET o == Get(a.tasks, a.selected) IN
    IF o = None THEN Ret(a, d, "Ok")
    ELSE LET r == Query(f, "write", d, Db_delete_task(d, o[1].id)) IN
         IF ~r.ok THEN Ret(a, r.db, "Err")
         ELSE LET l == App_load_tasks(add_log(a, "INFO", "Deleted task id"),
                                      r.db, f)
              IN  IF l.res # "Ok" THEN l
                  ELSE Ret([l.app EXCEPT
                              !.selected = IF @ > 0 /\ @ >= Len(l.app.tasks)
                                           THEN @ - 1 ELSE @],
                           l.db, "Ok")

\* Mutant: selected_topic is not reset after the deletion.
App_delete_topic_keep_index(a, d, f) ==
    IF a.selected_topic >= Len(a.topics) THEN Ret(a, d, "Panic")
    ELSE LET current_topic == At(a.topics, a.selected_topic) IN
         IF current_topic.name = Favourites THEN Ret(a, d, "Ok")
         ELSE LET r == Query(f, "write", d, Db_delete_topic(d, current_topic.id))
              IN  IF ~r.ok THEN Ret(a, r.db, "Err")
                  ELSE LET l == App_load_topics(a, r.db, f) IN
                       IF l.res # "Ok" THEN l
                       ELSE App_load_tasks(l.app, l.db, f)

App_delete_topic(a, d, f) ==
    IF a.selected_topic >= Len(a.topics) THEN Ret(a, d, "Panic")
    ELSE LET current_topic == At(a.topics, a.selected_topic) IN
         IF current_topic.name = Favourites THEN Ret(a, d, "Ok")
         ELSE LET r == Query(f, "write", d, Db_delete_topic(d, current_topic.id))
              IN  IF ~r.ok THEN Ret(a, r.db, "Err")
                  ELSE LET l == App_load_topics(a, r.db, f) IN
                       IF l.res # "Ok" THEN l
                       ELSE App_load_tasks([l.app EXCEPT !.selected_topic = 0],
                                           l.db, f)

\* Mutant: the changeset carries completed = false, not the task's own value.
App_edit_task_reset_completed(a, d, desc, f) ==
    LET a1 == add_log(a, "INFO", "Task")
        o == Get(a.tasks, a.selected)
    IN  IF o = None THEN Ret(a1, d, "Ok")
        ELSE LET update == [name |-> Some(o[1].name), description |-> Some(desc),
                            completed |-> Some(FALSE),
                            favourite |-> Some(o[1].favourite)]
                 r == Query(f, "write", d, Db_update_task(d, o[1].id, update))
             IN  IF ~r.ok THEN Ret(a1, r.db, "Err")
                 ELSE App_load_tasks(
                          add_log(a1, "INFO", "Successfully edited task"), r.db, f)

App_edit_task(a, d, desc, f) ==
    LET a1 == add_log(a, "INFO", "Task")
        o == Get(a.tasks, a.selected)
    IN  IF o = None THEN Ret(a1, d, "Ok")
        ELSE LET update == [name |-> Some(o[1].name), description |-> Some(desc),
                            completed |-> Some(o[1].completed),
                            favourite |-> Some(o[1].favourite)]
                 r == Query(f, "write", d, Db_update_task(d, o[1].id, update))
             IN  IF ~r.ok THEN Ret(a1, r.db, "Err")
                 ELSE App_load_tasks(
                          add_log(a1, "INFO", "Successfully edited task"), r.db, f)

current_topic_is_special(a) ==
    IF a.topics = <<>> THEN FALSE
    ELSE At(a.topics, a.selected_topic).name \in {Favourites, Default}

current_topic_is_favourites(a) ==
    IF a.topics = <<>> THEN FALSE
    ELSE At(a.topics, a.selected_topic).name = Favourites

reset_task_inputs(a) ==
    [a EXCEPT !.task_name_input = <<>>, !.task_description_input = <<>>]

HasTopic(topics, name) == \E i \in 1..Len(topics) : topics[i].name = name

\* The block without its test: the topic is inserted without looking for it.
EnsureTopic_always_add(s, name, f) ==
    IF s.res # "Ok" THEN s
    ELSE LET r == App_add_topic(s.app, s.db, name, f) IN
         IF r.res # "Ok" THEN r ELSE App_load_topics(r.app, r.db, f)

\* One "ensure the topic exists" block of App::new.
EnsureTopic(s, name, f) ==
    IF s.res # "Ok" \/ HasTopic(s.app.topics, name) THEN s
    ELSE LET r == App_add_topic(s.app, s.db, name, f) IN
         IF r.res # "Ok" THEN r ELSE App_load_topics(r.app, r.db, f)

\* topics.iter().enumerate().find(|(_, t)| t.name == name)
FindTopic(topics, name) ==
    IF HasTopic(topics, name)
    THEN Some(CHOOSE i \in 0..(Len(topics) - 1) :
                 /\ At(topics, i).name = name
                 /\ \A j \in 0..(i - 1) : At(topics, j).name # name)
    ELSE None

\* Mutant: the bootstrap inserts Completed without looking for it.
App_new_completed_unchecked(d, f) ==
    LET s0 == App_load_topics(NewApp, d, f)
        s1 == EnsureTopic(s0, Favourites, f)
        s2 == EnsureTopic(s1, Default, f)
        s3 == EnsureTopic_always_add(s2, Completed, f)
    IN  IF s3.res # "Ok" THEN s3
        ELSE LET a1 == add_log(s3.app, "INFO", "Topics loaded")
                 i == FindTopic(a1.topics, Favourites)
                 a2 == IF i = None THEN a1 ELSE [a1 EXCEPT !.selected_topic = i[1]]
                 l == App_load_tasks(a2, s3.db, f)
             IN  IF l.res # "Ok" THEN l
                 ELSE Ret(add_log(add_log(l.app, "INFO", "Tasks loaded"),
                                  "INFO", "Application started"),
                          l.db, "Ok")

\* Mutant: the bootstrap checks Completed before Default.
App_new_completed_first(d, f) ==
    LET s0 == App_load_topics(NewApp, d, f)
        s1 == EnsureTopic(s0, Favourites, f)
        s2 == EnsureTopic(s1, Completed, f)
        s3 == EnsureTopic(s2, Default, f)
    IN  IF s3.res # "Ok" THEN s3
        ELSE LET a1 == add_log(s3.app, "INFO", "Topics loaded")
                 i == FindTopic(a1.topics, Favourites)
                 a2 == IF i = None THEN a1 ELSE [a1 EXCEPT !.selected_topic = i[1]]
                 l == App_load_tasks(a2, s3.db, f)
             IN  IF l.res # "Ok" THEN l
                 ELSE Ret(add_log(add_log(l.app, "INFO", "Tasks loaded"),
                                  "INFO", "Application started"),
                          l.db, "Ok")

App_new(d, f) ==
    LET s0 == App_load_topics(NewApp, d, f)
        s1 == EnsureTopic(s0, Favourites, f)
        s2 == EnsureTopic(s1, Default, f)
        s3 == EnsureTopic(s2, Completed, f)
    IN  IF s3.res # "Ok" THEN s3
        ELSE LET a1 == add_log(s3.app, "INFO", "Topics loaded")
                 i == FindTopic(a1.topics, Favourites)
                 a2 == IF i = None THEN a1 ELSE [a1 EXCEPT !.selected_topic = i[1]]
                 l == App_load_tasks(a2, s3.db, f)
             IN  IF l.res # "Ok" THEN l
                 ELSE Ret(add_log(add_log(l.app, "INFO", "Tasks loaded"),
                                  "INFO", "Application started"),
                          l.db, "Ok")

--------------------------------------------------------------------------
(* The process: startup (run_task_manager) and the key-event loop (run).   *)
(* One action per arm of the match on (input_mode, key.code).  The         *)
(* parameter f is the repository call that fails during the event:         *)
(* "none", "write", "load_topics" or "load_tasks".                         *)

Chars == UNION {Range(w) : w \in Words}

\* The user types only prefixes of the words of the model.
CanType(buf, c) == \E w \in Words : IsPrefix(Append(buf, c), w)

\* `if let Err(e) = op { app.add_log("ERROR", msg) }`
LogOnErr(r, msg) ==
    IF r.res = "Err" THEN [r EXCEPT !.app = add_log(@, "ERROR", msg)] ELSE r

\* The state after the event, within the bounds of the model; a panic ends
\* the process.
Commit(r) ==
    /\ Len(r.app.logs) <= MaxLogs
    /\ r.db.topic_seq <= MaxTopicId
    /\ r.db.task_seq <= MaxTaskId
    /\ app' = r.app
    /\ db' = r.db
    /\ pc' = IF r.res = "Panic" THEN "panicked" ELSE pc

SetApp(a) == app' = a /\ UNCHANGED <<db, pc>>

InMode(m) == pc = "running" /\ app.input_mode = m

\* A store an earlier session left behind: that session added a task to
\* Completed, marked it favourite and deleted the topic Completed.
LeftBehind ==
    LET d1 == Db_add_topic(EmptyDb, Favourites, <<>>).db
        d2 == Db_add_topic(d1, Default, <<>>).db
        d3 == Db_add_topic(d2, Completed, <<>>).db
        d4 == Db_add_task(d3, 3, <<"d">>, <<>>).db
        d5 == Db_toggle_task_favourite(d4, 1).db
    IN  Db_delete_topic(d5, 3).db

\* The topic rows of a first startup.
BootstrapTopics ==
    << [id |-> 1, name |-> Favourites, description |-> <<>>],
       [id |-> 2, name |-> Default, description |-> <<>>],
       [id |-> 3, name |-> Completed, description |-> <<>>] >>

\* A store an earlier session left behind: that session started on an empty
\* store, added two topics and deleted them again.
Bootstrapped ==
    [topic |-> Range(BootstrapTopics), task |-> {}, topic_seq |-> 5,
     task_seq |-> 0]

\* The store the process is started on: a new one, or one of an earlier
\* session.
InitStores ==
    {EmptyDb, Db_add_topic(EmptyDb, Favourites, <<>>).db, LeftBehind, Bootstrapped}

Init ==
    /\ app = NewApp
    /\ db \in InitStores
    /\ pc = "off"

\* run_task_manager: App::new(db_path), then ui::run.  An Err from App::new
\* ends the process before the event loop starts.
Startup(f) ==
    /\ pc = "off"
    /\ LET r == App_new(db, f) IN
       /\ db' = r.db
       /\ IF r.res = "Ok" THEN app' = r.app /\ pc' = "running"
          ELSE app' = NewApp /\ pc' = "off"

\* `break`: run returns and the process ends; the store stays.
Normal_q ==
    /\ InMode("Normal")
    /\ pc' = "exited"
    /\ UNCHANGED <<app, db>>

\* Mutant: the key is refused on every special topic, Default included.
Normal_a_special ==
    /\ InMode("Normal")
    /\ IF current_topic_is_special(app) THEN UNCHANGED vars
       ELSE SetApp([app EXCEPT !.input_mode = "AddingTaskName", !.input = <<>>])

Normal_a ==
    /\ InMode("Normal")
    /\ IF current_topic_is_favourites(app) THEN UNCHANGED vars
       ELSE SetApp([app EXCEPT !.input_mode = "AddingTaskName", !.input = <<>>])

Normal_d(f) ==
    /\ InMode("Normal")
    /\ Commit(LogOnErr(App_delete_task(app, db, f), "Failed to delete task"))

Normal_e ==
    /\ InMode("Normal")
    /\ SetApp([app EXCEPT !.input_mode = "EditingTask", !.input = <<>>])

Normal_f(f) ==
    /\ InMode("Normal")
    /\ Commit(LogOnErr(App_toggle_favourite(app, db, f), "Failed to toggle favourite"))

Normal_H ==
    /\ InMode("Normal")
    /\ SetApp([app EXCEPT !.input_mode = "Help", !.show_help = ~@])

Normal_t(f) ==
    /\ InMode("Normal")
    /\ Commit(LogOnErr(App_toggle_task(app, db, f), "Failed to toggle task"))

\* Mutant: Down on the last task wraps around to the first.
Normal_Down_wrap ==
    /\ InMode("Normal")
    /\ IF app.selected < saturating_sub(Len(app.tasks), 1)
       THEN SetApp([app EXCEPT !.selected = @ + 1])
       ELSE SetApp([app EXCEPT !.selected = 0])

Normal_Down ==
    /\ InMode("Normal")
    /\ IF app.selected < saturating_sub(Len(app.tasks), 1)
       THEN SetApp([app EXCEPT !.selected = @ + 1])
       ELSE UNCHANGED vars

Normal_Up ==
    /\ InMode("Normal")
    /\ IF app.selected > 0
       THEN SetApp([app EXCEPT !.selected = @ - 1])
       ELSE UNCHANGED vars

\* app.load_tasks().unwrap(): an Err panics.
Unwrap(r) == IF r.res = "Err" THEN [r EXCEPT !.res = "Panic"] ELSE r

SwitchTopic(i, f) ==
    LET r == Unwrap(App_load_tasks([app EXCEPT !.selected_topic = i], db, f)) IN
    Commit(IF r.res = "Ok" THEN [r EXCEPT !.app.selected = 0] ELSE r)

Normal_Left(f) ==
    /\ InMode("Normal")
    /\ IF app.selected_topic > 0
       THEN SwitchTopic(app.selected_topic - 1, f)
       ELSE UNCHANGED vars

\* Mutant: going right from the last topic wraps around to the first.
Normal_Right_wrap(f) ==
    /\ InMode("Normal")
    /\ IF app.selected_topic < saturating_sub(Len(app.topics), 1)
       THEN SwitchTopic(app.selected_topic + 1, f)
       ELSE SwitchTopic(0, f)

Normal_Right(f) ==
    /\ InMode("Normal")
    /\ IF app.selected_topic < saturating_sub(Len(app.topics), 1)
       THEN SwitchTopic(app.selected_topic + 1, f)
       ELSE UNCHANGED vars

Normal_PageUp ==
    /\ InMode("Normal")
    /\ app.log_offset < MaxLogOffset
    /\ SetApp([app EXCEPT !.log_offset = @ + 1])

\* Mutant: PageDown snaps back to the latest entry.
Normal_PageDown_snaps ==
    /\ InMode("Normal")
    /\ IF app.log_offset > 0
       THEN SetApp([app EXCEPT !.log_offset = 0])
       ELSE UNCHANGED vars

Normal_PageDown ==
    /\ InMode("Normal")
    /\ IF app.log_offset > 0
       THEN SetApp([app EXCEPT !.log_offset = @ - 1])
       ELSE UNCHANGED vars

Normal_N ==
    /\ InMode("Normal")
    /\ SetApp([app EXCEPT !.input_mode = "AddingTopic", !.input = <<>>])

Normal_X(f) ==
    /\ InMode("Normal")
    /\ IF ~current_topic_is_favourites(app)
       THEN Commit(LogOnErr(App_delete_topic(app, db, f), "Failed to delete topic"))
       ELSE UNCHANGED vars

\* The arms of InputMode::AddingTask.  No arm of the loop sets this mode, so
\* its handlers are given as functions of the state they would run on.
OnAddingTask_Enter(a, d, f) ==
    LET r == IF a.input # <<>>
             THEN LogOnErr(LogOnErr(App_add_task(a, d, a.input, f),
                                    "Failed to add task"), "error")
             ELSE Ret(a, d, "Ok")
    IN  IF r.res = "Panic" THEN r ELSE [r EXCEPT !.app.input_mode = "Normal"]

OnAddingTask_Esc(a) == [a EXCEPT !.input_mode = "Normal"]

AddingTask_Enter(f) ==
    /\ InMode("AddingTask")
    /\ Commit(OnAddingTask_Enter(app, db, f))

AddingTask_Esc ==
    /\ InMode("AddingTask")
    /\ SetApp(OnAddingTask_Esc(app))

\* Mutant: Enter goes on to the description whatever the name buffer holds.
AddingTaskName_Enter_unchecked ==
    /\ InMode("AddingTaskName")
    /\ SetApp([app EXCEPT !.input_mode = "AddingTaskDescription"])

AddingTaskName_Enter ==
    /\ InMode("AddingTaskName")
    /\ IF app.task_name_input # <<>>
       THEN SetApp([app EXCEPT !.input_mode = "AddingTaskDescription"])
       ELSE UNCHANGED vars

AddingTaskName_Esc ==
    /\ InMode("AddingTaskName")
    /\ SetApp([app EXCEPT !.input_mode = "Normal"])

AddingTaskName_Char ==
    /\ InMode("AddingTaskName")
    /\ \E c \in Chars :
          /\ CanType(app.task_name_input, c)
          /\ SetApp([app EXCEPT !.task_name_input = Append(@, c)])

AddingTaskName_Backspace ==
    /\ InMode("AddingTaskName")
    /\ SetApp([app EXCEPT !.task_name_input = Pop(@)])

AddingTaskDescription_Enter(f) ==
    /\ InMode("AddingTaskDescription")
    /\ IF app.task_name_input # <<>>
       THEN LET r == LogOnErr(LogOnErr(
                        App_add_task_with_details(app, db, app.task_name_input,
                                                  app.task_description_input, f),
                        "Failed to add task"), "error")
            IN  Commit(IF r.res = "Panic" THEN r
                       ELSE [r EXCEPT !.app = [reset_task_inputs(@) EXCEPT
                                                 !.input_mode = "Normal"]])
       ELSE UNCHANGED vars

AddingTaskDescription_Esc ==
    /\ InMode("AddingTaskDescription")
    /\ SetApp([app EXCEPT !.input_mode = "Normal"])

\* Mutant: going back discards the description typed so far.
AddingTaskDescription_Tab_discards ==
    /\ InMode("AddingTaskDescription")
    /\ SetApp([app EXCEPT !.input_mode = "AddingTaskName",
                          !.task_description_input = <<>>])

AddingTaskDescription_Tab ==
    /\ InMode("AddingTaskDescription")
    /\ SetApp([app EXCEPT !.input_mode = "AddingTaskName"])

AddingTaskDescription_Char ==
    /\ InMode("AddingTaskDescription")
    /\ \E c \in Chars :
          /\ CanType(app.task_description_input, c)
          /\ SetApp([app EXCEPT !.task_description_input = Append(@, c)])

AddingTaskDescription_Backspace ==
    /\ InMode("AddingTaskDescription")
    /\ SetApp([app EXCEPT !.task_description_input = Pop(@)])

\* Mutant: Enter commits the buffer without testing it for emptiness.
EditingTask_Enter_unchecked(f) ==
    /\ InMode("EditingTask")
    /\ LET r == LogOnErr(App_edit_task(app, db, app.input, f),
                         "Failed to edit task")
       IN  Commit(IF r.res = "Panic" THEN r
                  ELSE [r EXCEPT !.app.input_mode = "Normal"])

EditingTask_Enter(f) ==
    /\ InMode("EditingTask")
    /\ LET r == IF app.input # <<>>
                THEN LogOnErr(App_edit_task(app, db, app.input, f),
                              "Failed to edit task")
                ELSE Ret(app, db, "Ok")
       IN  Commit(IF r.res = "Panic" THEN r
                  ELSE [r EXCEPT !.app.input_mode = "Normal"])

\* Mutant: Esc commits the buffer as Enter does.
EditingTask_Esc_commits == EditingTask_Enter("none")

EditingTask_Esc ==
    /\ InMode("EditingTask")
    /\ SetApp([app EXCEPT !.input_mode = "Normal"])

\* Mutant: the typed character is dispatched as the Normal-mode command it
\* names ('d': delete the selected task).
EditingTask_Char_as_command ==
    /\ InMode("EditingTask")
    /\ Commit(LogOnErr(App_delete_task(app, db, "none"), "Failed to delete task"))

EditingTask_Char ==
    /\ InMode("EditingTask")
    /\ \E c \in Chars :
          /\ CanType(app.input, c)
          /\ SetApp([app EXCEPT !.input = Append(@, c)])

EditingTask_Backspace ==
    /\ InMode("EditingTask")
    /\ SetApp([app EXCEPT !.input = Pop(@)])

AddingTopic_Enter(f) ==
    /\ InMode("AddingTopic")
    /\ LET r == IF app.input # <<>>
                THEN LET t == App_add_topic(app, db, app.input, f) IN
                     IF t.res = "Err"
                     THEN [t EXCEPT !.app = add_log(@, "ERROR", "Failed to add topic")]
                     ELSE [t EXCEPT !.app = add_log(@, "INFO", "Added topic")]
                ELSE Ret(app, db, "Ok")
       IN  Commit([r EXCEPT !.app.input_mode = "Normal"])

AddingTopic_Esc ==
    /\ InMode("AddingTopic")
    /\ SetApp([app EXCEPT !.input_mode = "Normal"])

AddingTopic_Char ==
    /\ InMode("AddingTopic")
    /\ \E c \in Chars :
          /\ CanType(app.input, c)
          /\ SetApp([app EXCEPT !.input = Append(@, c)])

AddingTopic_Backspace ==
    /\ InMode("AddingTopic")
    /\ SetApp([app EXCEPT !.input = Pop(@)])

\* Mutant: Esc leaves Help mode with the popup still shown.
Help_Esc_keeps_popup ==
    /\ InMode("Help")
    /\ SetApp([app EXCEPT !.input_mode = "Normal"])

Help_Esc ==
    /\ InMode("Help")
    /\ SetApp([app EXCEPT !.show_help = FALSE, !.input_mode = "Normal"])

Help_H ==
    /\ InMode("Help")
    /\ SetApp([app EXCEPT !.show_help = FALSE, !.input_mode = "Normal"])

\* `_ => {}`: every other key in Help mode.
Help_Other ==
    /\ InMode("Help")
    /\ UNCHANGED vars

NoFault == "none"

Next ==
    \/ Startup(NoFault)
    \/ Normal_q
    \/ Normal_a
    \/ Normal_d(NoFault)
    \/ Normal_e
    \/ Normal_f(NoFault)
    \/ Normal_H
    \/ Normal_t(NoFault)
    \/ Normal_Down
    \/ Normal_Up
    \/ Normal_Left(NoFault)
    \/ Normal_Right(NoFault)
    \/ Normal_PageUp
    \/ Normal_PageDown
    \/ Normal_N
    \/ Normal_X(NoFault)
    \/ AddingTaskName_Enter
    \/ AddingTaskName_Esc
    \/ AddingTaskName_Char
    \/ AddingTaskName_Backspace
    \/ AddingTaskDescription_Enter(NoFault)
    \/ AddingTaskDescription_Esc
    \/ AddingTaskDescription_Tab
    \/ AddingTaskDescription_Char
    \/ AddingTaskDescription_Backspace
    \/ EditingTask_Enter(NoFault)
    \/ EditingTask_Esc
    \/ EditingTask_Char
    \/ EditingTask_Backspace
    \/ AddingTopic_Enter(NoFault)
    \/ AddingTopic_Esc
    \/ AddingTopic_Char
    \/ AddingTopic_Backspace
    \/ Help_Esc
    \/ Help_H
    \/ Help_Other

Spec == Init /\ [][Next]_vars

\* The repository call that fails with a query-level error during an event.
Faults == {"none", "write", "load_topics", "load_tasks"}

\* The process with store failures: every event that reaches the repository
\* runs with any one of its calls failing, or none.
NextFault ==
    \/ \E f \in Faults : Startup(f)
    \/ Normal_q
    \/ Normal_a
    \/ \E f \in Faults : Normal_d(f)
    \/ Normal_e
    \/ \E f \in Faults : Normal_f(f)
    \/ Normal_H
    \/ \E f \in Faults : Normal_t(f)
    \/ Normal_Down
    \/ Normal_Up
    \/ \E f \in Faults : Normal_Left(f)
    \/ \E f \in Faults : Normal_Right(f)
    \/ Normal_PageUp
    \/ Normal_PageDown
    \/ Normal_N
    \/ \E f \in Faults : Normal_X(f)
    \/ AddingTaskName_Enter
    \/ AddingTaskName_Esc
    \/ AddingTaskName_Char
    \/ AddingTaskName_Backspace
    \/ \E f \in Faults : AddingTaskDescription_Enter(f)
    \/ AddingTaskDescription_Esc
    \/ AddingTaskDescription_Tab
    \/ AddingTaskDescription_Char
    \/ AddingTaskDescription_Backspace
    \/ \E f \in Faults : EditingTask_Enter(f)
    \/ EditingTask_Esc
    \/ EditingTask_Char
    \/ EditingTask_Backspace
    \/ \E f \in Faults : AddingTopic_Enter(f)
    \/ AddingTopic_Esc
    \/ AddingTopic_Char
    \/ AddingTopic_Backspace
    \/ Help_Esc
    \/ Help_H
    \/ Help_Other

SpecFault == Init /\ [][NextFault]_vars

--------------------------------------------------------------------------
(* Properties *)

Started == pc \in {"running", "exited"}

HasTopicNamed(name) == \E t \in db.topic : t.name = name

CurrentTopic == At(app.topics, app.selected_topic)

\* The view the store gives for a topic.
View(topic) == Db_load_tasks(db, topic).val

IsAscendingById(v) == \A i \in 1..(Len(v) - 1) : v[i].id < v[i + 1].id

\* C1: after startup and after every processed key event, a non-empty cached
\* task list has selected < tasks.len().
C1_SelectedInBounds ==
    Started => (app.tasks # <<>> => app.selected < Len(app.tasks))

\* C1 witness: the second of two listed tasks was selected and deleted; one
\* task is left and the selection moved down onto it.
C1_Witness ==
    /\ pc = "running"
    /\ db.task_seq = 2
    /\ {t.id : t \in db.task} = {1}
    /\ Len(app.tasks) = 1
    /\ app.selected = 0
    /\ Len(app.logs) = 5

\* C2: after startup and after every processed key event the cache equals the
\* store: topics is the topic table ordered by id and tasks is the store's
\* view for topics[selected_topic].
C2_CacheEqualsStore ==
    pc = "running" =>
        /\ app.topics = OrderById(db.topic)
        /\ app.topics # <<>> => app.tasks = View(CurrentTopic)

\* C2 witness: two mutations of this session are in the store and in the
\* cache: a completed task is listed while a topic has been deleted.
C2_Witness ==
    /\ pc = "running"
    /\ db.topic_seq = 3
    /\ Cardinality(db.topic) = 2
    /\ \E i \in 1..Len(app.tasks) : app.tasks[i].completed
    /\ \E t \in db.task : t.completed

\* C3: selected_topic < topics.len(), or selected_topic = 0 when topics is
\* empty, in every state.
C3_SelectedTopicInBounds ==
    IF app.topics = <<>> THEN app.selected_topic = 0
    ELSE app.selected_topic < Len(app.topics)

\* C3 witness: the last topic of the list (Completed) was current and has
\* been deleted: two topics are left and the first one is current.
C3_Witness ==
    /\ pc = "running"
    /\ db.topic_seq = 3
    /\ Len(app.topics) = 2
    /\ app.selected_topic = 0

\* C4: DbOperations::delete_topic on a topic named Favourites or Default
\* returns Ok(0) and leaves both tables as they are; once started, the store
\* always holds a topic named Favourites and a topic named Default.
C4_ProtectedTopics ==
    /\ \A t \in db.topic :
          t.name \in {Favourites, Default} =>
              Db_delete_topic(db, t.id) = [ok |-> TRUE, db |-> db, val |-> 0]
    /\ Started => HasTopicNamed(Favourites) /\ HasTopicNamed(Default)

\* C4 witness: the delete-topic key was pressed on Default.  No topic was ever
\* added or deleted, yet the second task of the Default view is still the
\* selection over the empty Favourites view the refused deletion switched to.
C4_Witness ==
    /\ pc = "running"
    /\ db.topic_seq = 3
    /\ Cardinality(db.topic) = 3
    /\ app.selected_topic = 0
    /\ app.tasks = <<>>
    /\ app.selected = 1

\* C5: the topic named Completed is exempt from deletion: once startup has
\* created it, no sequence of events removes it from the store.
C5_CompletedNeverDeleted == Started => HasTopicNamed(Completed)

\* C6: a delete-topic attempt while the current topic is Favourites or Default
\* is ignored by the application state: App::delete_topic returns Ok and
\* leaves topics, selected_topic, tasks, selected and logs (the whole of App)
\* and the store as they were.
C6_DeleteSpecialIgnored ==
    (pc = "running" /\ current_topic_is_special(app)) =>
        App_delete_topic(app, db, NoFault) = Ret(app, db, "Ok")

\* C7: no two topics in the store have the same name.
C7_UniqueTopicNames ==
    \A t1, t2 \in db.topic : t1.name = t2.name => t1 = t2

\* C8: for every topic named Favourites load_tasks returns exactly the tasks
\* with favourite = true, whatever their topic_id, in id order; and while the
\* Favourites view is current the cached list is that set after every event,
\* so a task un-favourited there is gone from tasks when the toggle returns.
C8_FavouritesView ==
    /\ \A t \in db.topic :
          t.name = Favourites =>
              /\ Range(View(t)) = {x \in db.task : x.favourite}
              /\ IsAscendingById(View(t))
    /\ (pc = "running" /\ app.topics # <<>> /\ CurrentTopic.name = Favourites) =>
          /\ Range(app.tasks) = {x \in db.task : x.favourite}
          /\ \A i \in 1..Len(app.tasks) : app.tasks[i].favourite

\* C8 witness: the only favourite task, owned by another topic, was shown in
\* the Favourites view at startup and has been un-favourited in this session:
\* the Favourites view is current and lists nothing.
C8_Witness ==
    /\ pc = "running"
    /\ CurrentTopic.name = Favourites
    /\ app.tasks = <<>>
    /\ Len(app.logs) = 4
    /\ \E x \in db.task : x.id = 1 /\ ~x.favourite /\ x.topic_id # CurrentTopic.id
    /\ ~\E t \in db.topic : t.id = 3

\* C9: for every topic named Default load_tasks returns every task of the
\* store in id order, so a task owned by another topic is in its owner's view
\* and in the Default view.
C9_DefaultView ==
    /\ \A t \in db.topic :
          t.name = Default =>
              /\ Range(View(t)) = db.task
              /\ IsAscendingById(View(t))
    /\ \A x \in db.task : \A o \in db.topic :
          (o.id = x.topic_id /\ o.name # Favourites) =>
              /\ x \in Range(View(o))
              /\ \A t \in db.topic : t.name = Default => x \in Range(View(t))

\* C9 witness: Default is current and lists a task owned by a topic that is
\* neither Favourites nor Default.
C9_Witness ==
    /\ pc = "running"
    /\ CurrentTopic.name = Default
    /\ \E x \in Range(app.tasks) : \E o \in db.topic :
          /\ o.id = x.topic_id
          /\ o.name \notin {Favourites, Default}
          /\ x \in Range(View(o))

\* C10: for every topic named neither Favourites nor Default load_tasks
\* returns exactly the tasks whose topic_id is that topic's id, in id order.
C10_MembershipView ==
    \A t \in db.topic :
        t.name \notin {Favourites, Default} =>
            /\ Range(View(t)) = {x \in db.task : x.topic_id = t.id}
            /\ IsAscendingById(View(t))

\* C10 witness: an ordinary topic is current; it lists its own task and not
\* the task another topic owns.
C10_Witness ==
    /\ pc = "running"
    /\ CurrentTopic.name \notin {Favourites, Default}
    /\ Len(app.tasks) = 1
    /\ app.tasks[1].topic_id = CurrentTopic.id
    /\ \E y \in db.task : y.topic_id # CurrentTopic.id

\* C11: toggle_task_completion applied twice to a task id of the store gives
\* back the store it started from: the first call negates completed and keeps
\* id, topic_id, name, description and favourite, the second restores the row.
\* The same holds for App::toggle_task on the selected task: the store and the
\* cached list are as before and the same task is selected.
C11_ToggleTwice ==
    /\ \A t \in db.task :
          LET r1 == Db_toggle_task_completion(db, t.id)
              r2 == Db_toggle_task_completion(r1.db, t.id)
          IN  /\ r1.ok /\ r2.ok
              /\ r1.val = [t EXCEPT !.completed = ~t.completed]
              /\ r1.db.task = (db.task \ {t}) \cup {r1.val}
              /\ r2.val = t
              /\ r2.db = db
    /\ (pc = "running" /\ Get(app.tasks, app.selected) # None) =>
          LET r1 == App_toggle_task(app, db, NoFault)
              r2 == App_toggle_task(r1.app, r1.db, NoFault)
              t == At(app.tasks, app.selected)
          IN  /\ r1.res = "Ok" /\ r2.res = "Ok"
              /\ At(r1.app.tasks, r1.app.selected) = [t EXCEPT !.completed = ~t.completed]
              /\ r2.db = db
              /\ r2.app.tasks = app.tasks
              /\ r2.app.selected = app.selected

\* C11 witness: the toggle key has acted once on the selected task, which is
\* now completed; a second toggle is what brings it back.
C11_Witness ==
    /\ pc = "running"
    /\ Get(app.tasks, app.selected) # None
    /\ At(app.tasks, app.selected).completed
    /\ \E t \in db.task : t.id = At(app.tasks, app.selected).id /\ t.completed

\* C12: App::delete_task with selected = i on a cached list of length n >= 1
\* succeeds, removes the selected task from the store and from the reloaded
\* list, and leaves selected = i when i < n - 1 and max(0, n - 2) when
\* i = n - 1.
C12_DeleteTaskSelection ==
    (pc = "running" /\ app.tasks # <<>>) =>
        LET i == app.selected
            n == Len(app.tasks)
            r == App_delete_task(app, db, NoFault)
        IN  /\ i < n
            /\ r.res = "Ok"
            /\ r.db.task = {t \in db.task : t.id # At(app.tasks, i).id}
            /\ Len(r.app.tasks) = n - 1
            /\ r.app.selected = IF i < n - 1 THEN i
                                ELSE IF n - 2 > 0 THEN n - 2 ELSE 0

\* C12, the case 0 < i < n - 1: three tasks are listed and the middle one is selected, so a
\* deletion keeps the index on what was the third task.
C12_MiddleSelected ==
    /\ pc = "running"
    /\ Len(app.tasks) = 3
    /\ app.selected = 1
    /\ App_delete_task(app, db, NoFault).app.selected = 1
    /\ Len(App_delete_task(app, db, NoFault).app.tasks) = 2

\* C12 witness: the delete key has acted on the last of two
\* listed tasks of the Default view and the selection stepped down by one.
C12_Witness ==
    /\ pc = "running"
    /\ CurrentTopic.name = Default
    /\ db.task_seq = 2
    /\ Len(app.tasks) = 1
    /\ app.tasks[1].id = 1
    /\ app.selected = 0

\* C13: startup on an empty store creates exactly the topics Favourites,
\* Default, Completed, in that order of ids, and no task; the application
\* starts with selected_topic on Favourites, tasks empty, selected = 0 and
\* input_mode = Normal.
C13_StartupOnEmptyStore ==
    [][(pc = "off" /\ db = EmptyDb /\ pc' = "running") =>
          /\ db'.topic = Range(BootstrapTopics)
          /\ db'.task = {}
          /\ app'.topics = BootstrapTopics
          /\ At(app'.topics, app'.selected_topic).name = Favourites
          /\ app'.tasks = <<>>
          /\ app'.selected = 0
          /\ app'.input_mode = "Normal"]_vars

\* C13 witness: the state a startup on the empty store leaves: three topics,
\* no task was ever inserted, the three startup log entries.
C13_Witness ==
    /\ pc = "running"
    /\ db.topic_seq = 3
    /\ db.task_seq = 0
    /\ app.topics = BootstrapTopics
    /\ Len(app.logs) = 3
    /\ app.selected_topic = 0
    /\ app.input_mode = "Normal"

\* C14: startup on a store that already holds topics named Favourites,
\* Default and Completed leaves the store as it is (no topic, no task
\* inserted); and every startup leaves selected_topic on the first topic, in
\* id order, that is named Favourites.
C14_StartupIdempotent ==
    [][(pc = "off" /\ pc' = "running") =>
          /\ (HasTopicNamed(Favourites) /\ HasTopicNamed(Default)
                 /\ HasTopicNamed(Completed)) => db' = db
          /\ db'.task = db.task
          /\ app'.topics = OrderById(db'.topic)
          /\ At(app'.topics, app'.selected_topic).name = Favourites
          /\ \A j \in 0..(app'.selected_topic - 1) :
                At(app'.topics, j).name # Favourites]_vars

\* C14 witness: the state a startup on the store of an earlier session leaves:
\* its three topics, nothing inserted, the three startup log entries.
C14_Witness ==
    /\ pc = "running"
    /\ db = Bootstrapped
    /\ db.topic_seq = 5
    /\ app.topics = BootstrapTopics
    /\ Len(app.logs) = 3
    /\ At(app.topics, app.selected_topic).name = Favourites

\* The texts an operation of App is called with: the prefixes of the words.
Texts == UNION {{SubSeq(w, 1, n) : n \in 0..Len(w)} : w \in Words}

FavouritesIsCurrent ==
    pc = "running" /\ app.topics # <<>> /\ CurrentTopic.name = Favourites

\* C15: while the current topic is Favourites, add_task(description) and
\* add_task_with_details(name, description) return Ok and change nothing: no
\* row is inserted and tasks, selected, topics and logs (the whole of App) are
\* as before.
C15_AddInFavouritesIsNoop ==
    FavouritesIsCurrent =>
        \A name \in Texts, description \in Texts :
            /\ App_add_task_with_details(app, db, name, description, NoFault)
                  = Ret(app, db, "Ok")
            /\ App_add_task(app, db, description, NoFault) = Ret(app, db, "Ok")

\* C15 witness: Favourites is current and lists a favourite task; tasks were
\* added in this session under another topic.
C15_Witness ==
    /\ FavouritesIsCurrent
    /\ app.tasks # <<>>
    /\ db.task_seq = 2
    /\ Len(app.logs) = 5
    /\ App_add_task_with_details(app, db, <<"d">>, <<>>, NoFault).db.task_seq = 2

\* C16: while the current topic is not Favourites (Default included),
\* add_task_with_details(name, description) returns Ok and inserts exactly one
\* task: its topic_id is the current topic's id, it has the given name and
\* description, completed = false and favourite = false, its id is above every
\* other task id, and it is the last element of the reloaded tasks list.
C16_AddTaskWithDetails ==
    (pc = "running" /\ app.topics # <<>> /\ CurrentTopic.name # Favourites) =>
        \A name \in Texts, description \in Texts :
            LET r == App_add_task_with_details(app, db, name, description, NoFault)
                new == r.db.task \ db.task
            IN  /\ r.res = "Ok"
                /\ db.task \subseteq r.db.task
                /\ Cardinality(new) = 1
                /\ r.db.topic = db.topic
                /\ \A x \in new :
                      /\ x.topic_id = CurrentTopic.id
                      /\ x.name = name
                      /\ x.description = description
                      /\ ~x.completed
                      /\ ~x.favourite
                      /\ \A t \in db.task : t.id < x.id
                      /\ r.app.tasks # <<>>
                      /\ r.app.tasks[Len(r.app.tasks)] = x

\* C16 witness: Default is current and a task was added there in this session
\* on top of an older task: the new row is owned by Default, is neither
\* completed nor favourite and is the last of the list.
C16_Witness ==
    /\ pc = "running"
    /\ CurrentTopic.name = Default
    /\ Len(app.tasks) = 2
    /\ Len(app.logs) = 4
    /\ LET x == app.tasks[Len(app.tasks)] IN
          /\ x.id = db.task_seq
          /\ x.topic_id = CurrentTopic.id
          /\ x.name = <<"d">>
          /\ ~x.completed /\ ~x.favourite
          /\ x \in db.task

\* C17: in mode AddingTaskName, Enter moves to AddingTaskDescription if and
\* only if the name buffer is non-empty, and then changes nothing but the
\* mode; with an empty name buffer Enter changes nothing at all.
C17_NameStepNeedsName ==
    InMode("AddingTaskName") =>
        IF app.task_name_input # <<>>
        THEN /\ ENABLED (AddingTaskName_Enter
                           /\ app' = [app EXCEPT !.input_mode = "AddingTaskDescription"]
                           /\ db' = db /\ pc' = pc)
             /\ ~ENABLED (AddingTaskName_Enter
                           /\ ~(/\ app' = [app EXCEPT !.input_mode = "AddingTaskDescription"]
                                /\ db' = db /\ pc' = pc))
        ELSE ~ENABLED (AddingTaskName_Enter /\ vars' # vars)

\* C17 witness: the description step has been reached; only Enter on a
\* non-empty name buffer leads there.
C17_Witness ==
    /\ InMode("AddingTaskDescription")
    /\ app.task_name_input = <<"d">>
    /\ app.task_description_input = <<>>

\* C17, the other case: the name step with an empty name buffer.
C17_EmptyName ==
    /\ InMode("AddingTaskName")
    /\ app.task_name_input = <<>>

\* What a cancellation leaves alone: the store and the cached lists, both
\* indices and the log.
NothingCommitted(a, d, b, e) ==
    /\ e = d
    /\ b.topics = a.topics
    /\ b.tasks = a.tasks
    /\ b.selected = a.selected
    /\ b.selected_topic = a.selected_topic
    /\ b.logs = a.logs

\* The Esc arm of the current mode.
EscStep ==
    \/ AddingTask_Esc
    \/ AddingTaskName_Esc
    \/ AddingTaskDescription_Esc
    \/ EditingTask_Esc
    \/ AddingTopic_Esc
    \/ Help_Esc

Cancelled ==
    /\ app'.input_mode = "Normal"
    /\ pc' = pc
    /\ NothingCommitted(app, db, app', db')

\* C18: Esc in any mode but Normal moves to Normal in one step and commits
\* nothing: the store, topics, tasks, selected, selected_topic and logs are
\* unchanged.  The mode AddingTask, which no key enters, is covered by its
\* handler applied to the current state put in that mode.
C18_EscCancels ==
    /\ (pc = "running" /\ app.input_mode # "Normal") =>
          /\ ENABLED (EscStep /\ Cancelled)
          /\ ~ENABLED (EscStep /\ ~Cancelled)
    /\ pc = "running" =>
          LET a == [app EXCEPT !.input_mode = "AddingTask"]
              b == OnAddingTask_Esc(a)
          IN  b.input_mode = "Normal" /\ NothingCommitted(a, db, b, db)

\* C18 witness: a topic name was typed and cancelled: the mode is Normal again,
\* the typed text is still in the buffer and nothing was committed or logged.
C18_Witness ==
    /\ pc = "running"
    /\ app.input_mode = "Normal"
    /\ app.input = <<"d">>
    /\ Len(app.logs) = 3
    /\ db.topic_seq = 3
    /\ db.task_seq = 0

\* C19: cancelled text is discarded: every step that enters a text-entry mode
\* from Normal finds the buffers of that mode empty (input for AddingTask,
\* EditingTask and AddingTopic, task_name_input and task_description_input
\* for the two-step flow), so text typed before a cancellation is never
\* committed later.
C19_CancelledTextDiscarded ==
    [][(pc = "running" /\ app.input_mode = "Normal") =>
          /\ app'.input_mode \in {"AddingTask", "EditingTask", "AddingTopic"} =>
                app'.input = <<>>
          /\ app'.input_mode \in {"AddingTaskName", "AddingTaskDescription"} =>
                /\ app'.task_name_input = <<>>
                /\ app'.task_description_input = <<>>]_vars

TextEntryModes ==
    {"AddingTask", "AddingTaskName", "AddingTaskDescription", "EditingTask",
     "AddingTopic"}

\* The buffer a commit in the current mode requires to be non-empty.
RequiredBuffer ==
    IF app.input_mode \in {"AddingTaskName", "AddingTaskDescription"}
    THEN app.task_name_input ELSE app.input

\* The Enter arm of the current mode.
EnterStep ==
    \/ AddingTask_Enter(NoFault)
    \/ AddingTaskName_Enter
    \/ AddingTaskDescription_Enter(NoFault)
    \/ EditingTask_Enter(NoFault)
    \/ AddingTopic_Enter(NoFault)

EmptyCommitPending ==
    pc = "running" /\ app.input_mode \in TextEntryModes /\ RequiredBuffer = <<>>

\* C20 as claimed: in every text-entry mode Enter with the required buffer
\* empty is a no-op: the store, the caches, the logs and input_mode are all
\* unchanged.
C20_EmptyCommitIsNoop ==
    EmptyCommitPending => ~ENABLED (EnterStep /\ vars' # vars)

\* The outcome of a commit that is skipped: nothing changes but, in the
\* single-buffer modes, input_mode, which goes back to Normal.
EmptyCommitSkipped ==
    /\ pc' = pc
    /\ db' = db
    /\ app' = [app EXCEPT !.input_mode =
                  IF @ \in {"AddingTaskName", "AddingTaskDescription"} THEN @
                  ELSE "Normal"]

\* C20 amended: Enter with the required buffer empty skips the mutating call:
\* the store, the caches and the logs are unchanged; input_mode is unchanged in
\* the two-step flow and becomes Normal in AddingTask, EditingTask and
\* AddingTopic.  The description step is never entered or left with an empty
\* name buffer.
C20_EmptyCommitSkipsMutation ==
    /\ EmptyCommitPending =>
          /\ ENABLED (EnterStep /\ EmptyCommitSkipped)
          /\ ~ENABLED (EnterStep /\ ~EmptyCommitSkipped)
    /\ InMode("AddingTaskDescription") => app.task_name_input # <<>>
    /\ pc = "running" =>
          LET a == [app EXCEPT !.input_mode = "AddingTask", !.input = <<>>] IN
          OnAddingTask_Enter(a, db, NoFault)
              = Ret([a EXCEPT !.input_mode = "Normal"], db, "Ok")

\* C20 witness: the edit mode with an empty buffer over a listed task: Enter
\* goes back to Normal and leaves the task as it is.
C20_Witness ==
    /\ InMode("EditingTask")
    /\ app.input = <<>>
    /\ app.tasks # <<>>
    /\ ENABLED (EditingTask_Enter(NoFault)
                  /\ app'.input_mode = "Normal"
                  /\ app'.tasks = app.tasks
                  /\ app'.logs = app.logs
                  /\ db' = db)

\* A commit is pending: a committing mode with its required buffer non-empty.
CommitPending ==
    /\ pc = "running"
    /\ app.input_mode \in {"AddingTask", "AddingTaskDescription", "EditingTask",
                           "AddingTopic"}
    /\ RequiredBuffer # <<>>

\* The state the App operation of the current mode leaves when called once
\* with the buffer content.
CommittedOnce ==
    LET r == CASE app.input_mode = "AddingTaskDescription" ->
                    App_add_task_with_details(app, db, app.task_name_input,
                                              app.task_description_input, NoFault)
               [] app.input_mode = "EditingTask" ->
                    App_edit_task(app, db, app.input, NoFault)
               [] app.input_mode = "AddingTopic" ->
                    App_add_topic(app, db, app.input, NoFault)
               [] OTHER -> App_add_task(app, db, app.input, NoFault)
    IN  /\ db' = r.db
        /\ app'.topics = r.app.topics
        /\ app'.tasks = r.app.tasks
        /\ app'.selected = r.app.selected
        /\ app'.selected_topic = r.app.selected_topic

\* The buffers of the mode that commits are empty afterwards.
BuffersCleared ==
    IF app.input_mode = "AddingTaskDescription"
    THEN app'.task_name_input = <<>> /\ app'.task_description_input = <<>>
    ELSE app'.input = <<>>

\* The Enter step of a pending commit: of the keys of a committing mode only
\* Enter calls an App operation, and the call shows in the log.
CommitStep == CommitPending /\ app'.logs # app.logs

\* C21: in every committing text-entry mode, Enter with the required buffer
\* non-empty invokes the App operation of the mode once with the buffer
\* content, and in the resulting state the mode is Normal and the buffers the
\* mode uses are empty.
C21_CommitClearsBuffers ==
    [][CommitStep =>
          /\ CommittedOnce
          /\ app'.input_mode = "Normal"
          /\ BuffersCleared]_vars

\* C22: in Normal mode the add-task key leaves input_mode = Normal if and only
\* if the current topic is Favourites; on every other current topic it enters
\* AddingTaskName.
C22_AddKeyRefusedOnFavourites ==
    InMode("Normal") =>
        IF app.topics # <<>> /\ CurrentTopic.name = Favourites
        THEN ~ENABLED (Normal_a /\ vars' # vars)
        ELSE /\ ENABLED (Normal_a /\ app'.input_mode = "AddingTaskName")
             /\ ~ENABLED (Normal_a /\ app'.input_mode # "AddingTaskName")

\* C22 witness: the add-task key was pressed on Default: the name step is
\* entered with Default current.
C22_Witness ==
    /\ InMode("AddingTaskName")
    /\ CurrentTopic.name = Default
    /\ app.task_name_input = <<>>

\* C22, the other case: Normal mode with Favourites current.
C22_OnFavourites ==
    /\ InMode("Normal")
    /\ CurrentTopic.name = Favourites
    /\ app.tasks # <<>>

\* The outcome of a topic switch to index i: the index is i, tasks is the
\* store's view of topics[i], selected is 0 and nothing else changes.
SwitchedTo(i) ==
    /\ app' = [app EXCEPT !.selected_topic = i,
                          !.tasks = View(At(app.topics, i)),
                          !.selected = 0]
    /\ db' = db
    /\ pc' = pc

\* C23: in Normal mode Left at index 0 and Right at index topics.len() - 1
\* change nothing (no wraparound); otherwise the index moves by exactly one,
\* tasks is reloaded for the new topic and selected is reset to 0.
C23_TopicSwitchClamped ==
    InMode("Normal") =>
        /\ IF app.selected_topic = 0
           THEN ~ENABLED (Normal_Left(NoFault) /\ vars' # vars)
           ELSE /\ ENABLED (Normal_Left(NoFault)
                              /\ SwitchedTo(app.selected_topic - 1))
                /\ ~ENABLED (Normal_Left(NoFault)
                               /\ ~SwitchedTo(app.selected_topic - 1))
        /\ IF app.selected_topic + 1 >= Len(app.topics)
           THEN ~ENABLED (Normal_Right(NoFault) /\ vars' # vars)
           ELSE /\ ENABLED (Normal_Right(NoFault)
                              /\ SwitchedTo(app.selected_topic + 1))
                /\ ~ENABLED (Normal_Right(NoFault)
                               /\ ~SwitchedTo(app.selected_topic + 1))

\* C23 witness: the last topic is current, which only Right steps reach; its
\* list was reloaded and differs from the longer list of the topic to its
\* left.
C23_Witness ==
    /\ InMode("Normal")
    /\ app.selected_topic = Len(app.topics) - 1
    /\ app.selected_topic > 0
    /\ app.selected = 0
    /\ app.tasks # <<>>
    /\ View(At(app.topics, app.selected_topic - 1)) # app.tasks
    /\ Len(View(At(app.topics, app.selected_topic - 1))) >= 2

\* C24: every mutation of the application state triggered by an event (add
\* task, toggle completion, toggle favourite, edit task, delete task, add
\* topic, delete topic) appends exactly one entry to logs.  The mutations of a
\* running session are the steps that change the store.
C24_OneLogEntryPerMutation ==
    [][(pc = "running" /\ db' # db) =>
          Len(app'.logs) = Len(app.logs) + 1]_vars

\* An event of the running session during which a repository call failed
\* and was reported: the log ends with a new ERROR entry.
FailureReported ==
    /\ pc = "running" /\ pc' = "running"
    /\ Len(app'.logs) > Len(app.logs)
    /\ app'.logs[Len(app'.logs)].level = "ERROR"

\* C25: when a repository call inside an App operation fails, at the write or
\* at the reload after it, the operation aborts with topics, tasks, selected
\* and selected_topic exactly as before the event, and the only in-memory
\* change is one ERROR entry appended to logs.
C25_FailureLeavesStateAlone ==
    [][FailureReported =>
          /\ app'.topics = app.topics
          /\ app'.tasks = app.tasks
          /\ app'.selected = app.selected
          /\ app'.selected_topic = app.selected_topic
          /\ app'.logs = Append(app.logs, [level |-> "ERROR"])]_vars

\* C26: no query-level store failure during a key event terminates the
\* process: the event loop never panics.
C26_NoPanicOnQueryFailure == pc # "panicked"

\* The store after edit_task(desc) when only the description of `task` changes.
OnlyDescriptionChanged(d, task, desc) ==
    [d EXCEPT !.task = {IF t.id = task.id THEN [t EXCEPT !.description = desc]
                        ELSE t : t \in @}]

\* C27: edit_task(new_description) on a non-empty list replaces only the
\* description of the task at selected; its id, topic_id, name, completed and
\* favourite stay, and every other row of the store stays.
C27_EditChangesOnlyDescription ==
    (Started /\ app.tasks # <<>>) =>
        \A w \in Words :
            LET r == App_edit_task(app, db, w, NoFault)
                task == At(app.tasks, app.selected)
            IN  /\ r.res = "Ok"
                /\ task \in db.task
                /\ r.db = OnlyDescriptionChanged(db, task, w)

\* edit_task is about to rewrite a completed favourite that has no
\* description yet, with a second task in the store.
C27_Witness ==
    /\ InMode("EditingTask")
    /\ app.input \in Words
    /\ app.tasks # <<>>
    /\ LET task == At(app.tasks, app.selected) IN
          /\ task.completed /\ task.favourite /\ task.description = <<>>
          /\ \E t \in db.task : t.id # task.id
          /\ App_edit_task(app, db, app.input, NoFault).db # db

\* C28: a successful delete_topic on a current topic that is not protected
\* removes exactly that topic from the store and from the reloaded topics
\* cache, sets selected_topic to 0 and leaves tasks equal to the view of
\* topics[0].
C28_DeleteTopicRemovesCurrent ==
    (Started /\ app.topics # <<>> /\ ~is_special_topic(CurrentTopic.name)) =>
        LET r == App_delete_topic(app, db, NoFault)
            rest == {t \in db.topic : t.id # CurrentTopic.id}
        IN  /\ r.res = "Ok"
            /\ r.db = [db EXCEPT !.topic = rest]
            /\ r.app.topics = OrderById(rest)
            /\ r.app.selected_topic = 0
            /\ r.app.topics # <<>> =>
                  r.app.tasks = Db_load_tasks(r.db, r.app.topics[1]).val

\* Completed, which every startup ensures, is gone from the store and from
\* the cache while one of its tasks stays behind: delete_topic removed it in
\* this session, and the cache shows the first topic and its view.
C28_Witness ==
    /\ InMode("Normal")
    /\ ~HasTopicNamed(Completed)
    /\ \E t \in db.task : ~\E p \in db.topic : p.id = t.topic_id
    /\ app.topics = OrderById(db.topic)
    /\ app.topics # <<>>
    /\ app.selected_topic = 0
    /\ app.tasks = View(app.topics[1])

\* The ids of a table's rows.
Ids(rows) == {r.id : r \in rows}

\* Every row of the list whose id is in `old` stands before every row whose
\* id is in `new`.
OldBeforeNew(list, old, new) ==
    \A i, j \in 1..Len(list) :
        (list[i].id \in old /\ list[j].id \in new) => i < j

\* load_topics and the three branches of load_tasks, on the current store.
LoadsAscending ==
    /\ IsAscendingById(Db_load_topics(db).val)
    /\ \A t \in db.topic : IsAscendingById(View(t))

\* A step that inserts rows gives them ids above every id the table has held,
\* and the reloaded caches list them after the rows that were there before.
AddedLast ==
    LET new_topics == Ids(db'.topic) \ Ids(db.topic)
        new_tasks == Ids(db'.task) \ Ids(db.task)
    IN  /\ \A n \in new_topics :
              /\ n > db.topic_seq
              /\ \A p \in db.topic : p.id < n
              /\ n \in Ids(Range(app'.topics))
        /\ \A n \in new_tasks :
              /\ n > db.task_seq
              /\ \A p \in db.task : p.id < n
        /\ OldBeforeNew(app'.topics, Ids(db.topic), new_topics)
        /\ OldBeforeNew(app'.tasks, Ids(db.task), new_tasks)

C30_EmptyListSelectsZero ==
    Started => (app.tasks = <<>> => app.selected = 0)

\* C31: in AddingTaskDescription, Tab returns to AddingTaskName and leaves
\* task_description_input and task_name_input (and everything else) as they
\* were; Enter from AddingTaskName then shows the same description text.
C31_TabKeepsBuffers ==
    /\ InMode("AddingTaskDescription") =>
          /\ ENABLED (AddingTaskDescription_Tab
                      /\ app' = [app EXCEPT !.input_mode = "AddingTaskName"])
          /\ ~ENABLED (AddingTaskDescription_Tab
                       /\ ~(/\ app' = [app EXCEPT !.input_mode = "AddingTaskName"]
                            /\ db' = db /\ pc' = pc))
    /\ (InMode("AddingTaskName") /\ app.task_name_input # <<>>) =>
          /\ ENABLED (AddingTaskName_Enter
                      /\ app' = [app EXCEPT !.input_mode = "AddingTaskDescription"])
          /\ ~ENABLED (AddingTaskName_Enter
                       /\ app'.task_description_input # app.task_description_input)

\* Back at the name step with a name and a description typed.
C31_Witness ==
    /\ InMode("AddingTaskName")
    /\ app.task_name_input # <<>>
    /\ app.task_description_input # <<>>
    /\ app.input = <<>>
    /\ Len(app.logs) = 3

\* What both exit events of Help mode do.
HelpClosed ==
    /\ app' = [app EXCEPT !.show_help = FALSE, !.input_mode = "Normal"]
    /\ db' = db
    /\ pc' = pc

PageDownClamped ==
    IF app.log_offset = 0
    THEN /\ ENABLED Normal_PageDown
         /\ ~ENABLED (Normal_PageDown /\ vars' # vars)
    ELSE LET Down == /\ app' = [app EXCEPT !.log_offset = @ - 1]
                     /\ db' = db
                     /\ pc' = pc
         IN  /\ ENABLED (Normal_PageDown /\ Down)
             /\ ~ENABLED (Normal_PageDown /\ ~Down)

\* C33: log_offset is 0 right after every append to logs and is never
\* negative: PageDown at offset 0 leaves it 0, and PageDown at a positive
\* offset decreases it by exactly one.
C33_LogOffsetSnapsAndClamps ==
    /\ [](app.log_offset >= 0 /\ (InMode("Normal") => PageDownClamped))
    /\ [][app'.logs # app.logs => app'.log_offset = 0]_vars

\* The log is scrolled back two entries; an append from here snaps it to 0
\* and PageDown takes it to 1.
C33_Witness ==
    /\ InMode("Normal")
    /\ app.log_offset = 2
    /\ Len(app.logs) < MaxLogs
    /\ app.tasks # <<>>

\* The step that moves selected to i and touches nothing else.
SelectedMovedTo(i) ==
    /\ app' = [app EXCEPT !.selected = i]
    /\ db' = db
    /\ pc' = pc

\* C34: in Normal mode Down increases selected by exactly 1 iff
\* selected < tasks.len() - 1 and otherwise changes nothing (an empty list
\* included); Up decreases it by exactly 1 iff selected > 0 and otherwise
\* changes nothing; neither touches the store, tasks or selected_topic.
C34_SelectionClamped ==
    InMode("Normal") =>
        /\ IF app.tasks # <<>> /\ app.selected < Len(app.tasks) - 1
           THEN /\ ENABLED (Normal_Down /\ SelectedMovedTo(app.selected + 1))
                /\ ~ENABLED (Normal_Down /\ ~SelectedMovedTo(app.selected + 1))
           ELSE /\ ENABLED Normal_Down
                /\ ~ENABLED (Normal_Down /\ vars' # vars)
        /\ IF app.selected > 0
           THEN /\ ENABLED (Normal_Up /\ SelectedMovedTo(app.selected - 1))
                /\ ~ENABLED (Normal_Up /\ ~SelectedMovedTo(app.selected - 1))
           ELSE /\ ENABLED Normal_Up
                /\ ~ENABLED (Normal_Up /\ vars' # vars)

\* The selection stands on the last of three listed tasks: Down stays, Up
\* goes to the second.
C34_Witness ==
    /\ InMode("Normal")
    /\ Len(app.tasks) = 3
    /\ app.selected = 2

\* The store with the favourite flag of row `task_id` negated, and with its
\* completed flag negated.
FavouriteFlipped(d, task_id) ==
    [d EXCEPT !.task = {IF t.id = task_id THEN [t EXCEPT !.favourite = ~@]
                        ELSE t : t \in @}]

CompletedFlipped(d, task_id) ==
    [d EXCEPT !.task = {IF t.id = task_id THEN [t EXCEPT !.completed = ~@]
                        ELSE t : t \in @}]

\* C35: toggle_favourite changes only the favourite flag of the selected task
\* and toggle_task only its completed flag: the other flag, topic_id, name and
\* description stay, and so does every other row.
C35_FlagsIndependent ==
    (pc = "running" /\ app.tasks # <<>>) =>
        LET task == At(app.tasks, app.selected)
            fav == App_toggle_favourite(app, db, NoFault)
            done == App_toggle_task(app, db, NoFault)
        IN  /\ fav.res = "Ok"
            /\ fav.db = FavouriteFlipped(db, task.id)
            /\ done.res = "Ok"
            /\ done.db = CompletedFlipped(db, task.id)

\* The four combinations of the flags, each on some task of the store.
C35_NeitherFlag == \E t \in db.task : ~t.completed /\ ~t.favourite
C35_OnlyCompleted == \E t \in db.task : t.completed /\ ~t.favourite
C35_OnlyFavourite == \E t \in db.task : ~t.completed /\ t.favourite
C35_BothFlags == \E t \in db.task : t.completed /\ t.favourite

\* The selected task is completed and a favourite, next to a task that is
\* neither.
C35_Witness ==
    /\ InMode("Normal")
    /\ app.tasks # <<>>
    /\ At(app.tasks, app.selected).completed
    /\ At(app.tasks, app.selected).favourite
    /\ C35_BothFlags
    /\ C35_NeitherFlag

\* Text of n characters: 'd' at the odd places, a two-byte character at the
\* even ones; and n times 'd'.
Mixed(n) == [i \in 1..n |-> IF i % 2 = 1 THEN "d" ELSE TwoByteChar]

Plain(n) == [i \in 1..n |-> "d"]

\* Descriptions around the limit of 20: shorter, exactly 20 and longer, in
\* characters and in bytes.
Descriptions ==
    {Plain(1), Plain(20), Plain(21), Mixed(14), Mixed(20), Mixed(21), Mixed(22)}

\* C36: add_task(description) in a topic other than Favourites stores a task
\* whose description is the argument and whose name is "Task " followed by the
\* first min(20, length) characters of the description.
C36_AddTaskNameTruncated ==
    (pc = "running" /\ app.topics # <<>> /\ CurrentTopic.name # Favourites) =>
        \A desc \in Descriptions :
            LET r == App_add_task(app, db, desc, NoFault) IN
            /\ r.res = "Ok"
            /\ r.db.task = db.task \cup
                  {[id |-> db.task_seq + 1, topic_id |-> CurrentTopic.id,
                    name |-> TaskLabel \o Take(desc, 20),
                    description |-> desc, completed |-> FALSE,
                    favourite |-> FALSE]}

\* Default is current and holds a task; add_task of a 22-character
\* description stores a name of 25 characters that ends where the
\* description's 20th character does.
C36_Witness ==
    /\ InMode("Normal")
    /\ CurrentTopic.name = Default
    /\ app.tasks # <<>>
    /\ LET r == App_add_task(app, db, Mixed(22), NoFault) IN
          \E t \in r.db.task :
              /\ t.id = db.task_seq + 1
              /\ t.description = Mixed(22)
              /\ Len(t.name) = 25
              /\ t.name # TaskLabel \o t.description
              /\ t \in Range(r.app.tasks)

\* C37: once startup has completed, topics is never empty (a topic named
\* Favourites is always in the cache) and selected_topic is an index of it,
\* so topics[selected_topic] in add_task, add_task_with_details, delete_topic
\* and load_tasks is in bounds.
C37_TopicsNeverEmpty ==
    Started =>
        /\ app.topics # <<>>
        /\ HasTopic(app.topics, Favourites)
        /\ app.selected_topic < Len(app.topics)
        /\ \A w \in Words :
              /\ App_add_task(app, db, w, NoFault).res # "Panic"
              /\ App_add_task_with_details(app, db, w, w, NoFault).res # "Panic"
        /\ App_delete_topic(app, db, NoFault).res # "Panic"
        /\ App_load_tasks(app, db, NoFault).res # "Panic"

\* Every topic that can be deleted has been deleted: the cache holds
\* Favourites and Default and nothing else, as the store does.
C37_Witness ==
    /\ InMode("Normal")
    /\ Len(app.topics) = 2
    /\ {t.name : t \in Range(app.topics)} = {Favourites, Default}
    /\ db.topic = Range(app.topics)
    /\ db.topic_seq > 3

\* The tasks of the store that a topic named Favourites owns.
OwnedByFavourites(d) ==
    {t \in d.task : \E p \in d.topic : p.name = Favourites /\ p.id = t.topic_id}

\* C38: Favourites owns no tasks: no task of the store has the id of a topic
\* named Favourites as its topic_id, and neither add operation stores one
\* while Favourites is current.
C38_FavouritesOwnsNothing ==
    /\ OwnedByFavourites(db) = {}
    /\ (pc = "running" /\ app.topics # <<>>) =>
          \A w \in Words :
              /\ OwnedByFavourites(App_add_task(app, db, w, NoFault).db) = {}
              /\ OwnedByFavourites(
                     App_add_task_with_details(app, db, w, w, NoFault).db) = {}

\* Favourites is current and lists a favourite that another topic owns,
\* after a task has been added in the session.
C38_Witness ==
    /\ InMode("Normal")
    /\ CurrentTopic.name = Favourites
    /\ app.tasks # <<>>
    /\ db.task_seq >= 2
    /\ \A t \in Range(app.tasks) : t.topic_id # CurrentTopic.id
    /\ App_add_task(app, db, <<"d">>, NoFault).db = db

\* The tasks of the store whose topic_id names no topic of the store.
Orphans(d) == {t \in d.task : ~\E p \in d.topic : p.id = t.topic_id}

\* C39: referential integrity is kept by every event: from a store in which
\* every task's topic_id is the id of an existing topic, no event, the
\* deletion of a topic that still owns tasks included, leads to a store with
\* a task whose topic is gone.
C39_ReferentialIntegrity ==
    [][Orphans(db) = {} => Orphans(db') = {}]_vars

\* The step that replaces the buffer the current mode types into and touches
\* nothing else.
BufferBecomes(text) ==
    /\ app' = IF app.input_mode \in {"AddingTaskName", "AddingTaskDescription"}
              THEN IF app.input_mode = "AddingTaskName"
                   THEN [app EXCEPT !.task_name_input = text]
                   ELSE [app EXCEPT !.task_description_input = text]
              ELSE [app EXCEPT !.input = text]
    /\ db' = db
    /\ pc' = pc

\* Char and Backspace of the current text-entry mode.
TypeStep ==
    \/ AddingTaskName_Char
    \/ AddingTaskDescription_Char
    \/ EditingTask_Char
    \/ AddingTopic_Char

EraseStep ==
    \/ AddingTaskName_Backspace
    \/ AddingTaskDescription_Backspace
    \/ EditingTask_Backspace
    \/ AddingTopic_Backspace

\* The buffer the current mode types into.
TypedBuffer ==
    CASE app.input_mode = "AddingTaskName" -> app.task_name_input
      [] app.input_mode = "AddingTaskDescription" -> app.task_description_input
      [] OTHER -> app.input

\* In a text-entry mode the command character 'd' is appended to the mode's
\* buffer and Backspace removes the buffer's last character, nothing else.
KeysOnlyEdit ==
    (pc = "running" /\ app.input_mode \in TextEntryModes) =>
        /\ \A c \in Chars :
              CanType(TypedBuffer, c) =>
                  ENABLED (TypeStep /\ BufferBecomes(Append(TypedBuffer, c)))
        /\ ~ENABLED (TypeStep /\ \A c \in Chars :
                                    ~BufferBecomes(Append(TypedBuffer, c)))
        /\ ENABLED (EraseStep /\ BufferBecomes(Pop(TypedBuffer)))
        /\ ~ENABLED (EraseStep /\ ~BufferBecomes(Pop(TypedBuffer)))

\* C40: in a text-entry mode, character and backspace keys only edit that
\* mode's buffer (a character that Normal mode binds to a command changes
\* neither the store nor topics, tasks, selected, selected_topic or
\* input_mode), and outside Normal mode the store changes only on a commit.
C40_TextEntryKeysOnlyEdit ==
    /\ []KeysOnlyEdit
    /\ [][(pc = "running" /\ app.input_mode # "Normal" /\ db' # db) =>
              (CommitPending /\ app'.input_mode = "Normal")]_vars

\* 'd' has been typed into the edit buffer over a listed task, which is still
\* in the store.
C40_Witness ==
    /\ InMode("EditingTask")
    /\ app.input = <<"d">>
    /\ app.tasks # <<>>
    /\ At(app.tasks, app.selected) \in db.task

====
